---- MODULE Spec2Model ----
(***************************************************************************)
(* Feed ingestion pipeline of glean: fetch_feed_task (the unit of work run *)
(* by the arq worker for one feed) and the rows it reads and writes.       *)
(*                                                                         *)
(* One feed is modelled (feeds share no state), with its Entry rows.       *)
(* Time is in minutes.  Three specifications share the definitions:        *)
(*   Spec        two workers run fetch_feed_task for the feed at the same  *)
(*               time, one await point per step, as the code permits;      *)
(*   SpecSeq     runs execute one after another, each as one step, with    *)
(*               the full set of parsed contents and a few runs;           *)
(*   SpecHealth  runs execute one after another, each as one step, with a  *)
(*               small set of parsed contents and enough runs to pass the  *)
(*               error limit.                                              *)
(* The Entry table is taken to hold one row per (feed_id, guid), as the     *)
(* data model of the pipeline states; the lookup of a session sees the     *)
(* rows the session has added (autoflush).                                 *)
(***************************************************************************)
EXTENDS Integers, Sequences, FiniteSets, TLC

VARIABLES
    feed,       \* the committed Feed row
    entries,    \* the committed Entry rows of the feed, in insertion order
    now,        \* the clock, datetime.now(UTC), in minutes
    task,       \* per worker: the position and the session state of its run
    ret,        \* per worker: how its last run ended (return value or Retry)
    last,       \* history: the last finished run (content, row before it)
    streak,     \* history: failing runs in a row since error_count was 0
    present,    \* whether the Feed row exists
    queue,      \* the fetch_feed_task jobs of the feed waiting in arq
    sweep,      \* what the last fetch_all_feeds did
    call,       \* the last call outside the fetch pipeline: arguments, outcome
    folders,    \* the Folder rows of one user: id -> parent_id and type
    subs,       \* the feed urls the user is subscribed to
    enqueued    \* the feed of every fetch_feed_task job the API has enqueued

vars == <<feed, entries, now, task, ret, last, streak, present, queue, sweep,
          call, folders, subs, enqueued>>

\* What the fetch pipeline works on, and what the other operations work on.
pipeline == <<feed, entries, now, task, ret, last, streak, present, queue, sweep>>
others == <<call, folders, subs, enqueued>>

(*************************** bounds ****************************************)
MaxTime == 11          \* SpecHealth: runs started (one minute apart)
MaxRuns == 3           \* SpecSeq: runs started
MaxTimeConc == 4       \* Spec: runs started
MaxParsedLen == 2      \* SpecSeq: entries in one parsed feed
MaxClock == 15         \* SpecOps: the last minute of the clock
MaxQueue == 1          \* SpecOps: jobs waiting for the feed
MaxLive == 480         \* SpecLive: the last minute of the clock
MaxDocLen == 2         \* SpecParse: entries in one document
MaxHtmlLen == 6        \* SpecStrip: tokens of the html string
MaxLength == 7         \* SpecStrip: the greatest max_length
MaxEnqueued == 4       \* SpecSub: fetch jobs the API has enqueued
MaxOpml == 3           \* SpecSub: feeds in one OPML file
MaxFolders == 4        \* SpecFolder: folders the user has at one time
MaxNested == 6         \* SpecNest: folders the user has at one time
MaxErrors == 11        \* SpecOps: error_count up to which runs may still fail

(*************************** program constants *****************************)
FETCH_INTERVAL == 15   \* timedelta(minutes=15)
ERROR_LIMIT == 10      \* if feed.error_count >= 10
BACKOFF_BASE == 15     \* 15 * (2 ** ...)
BACKOFF_CAP == 60      \* min(60, ...)
BACKOFF_MAX_EXP == 5   \* min(feed.error_count - 1, 5)
RETRY_DEFER == 5       \* Retry(defer=timedelta(minutes=5))
MAX_DEPTH == 5         \* FolderService.MAX_DEPTH

Workers == {1, 2}

NoneStr == "None"      \* Python None in a string-valued column
NoTime == -1           \* Python None in a datetime-valued column
Absent == "<absent>"   \* a key that is not in the cache_headers dict

DisplayFields == {"title", "description", "site_url", "language", "icon_url"}

Min(a, b) == IF a < b THEN a ELSE b

RECURSIVE Pow2(_)
Pow2(n) == IF n <= 0 THEN 1 ELSE 2 * Pow2(n - 1)

\* Python truthiness of a str | None value, and `a or b`.
Falsy(x) == x \in {NoneStr, ""}
PyOr(a, b) == IF Falsy(a) THEN b ELSE a

(*************************** parsed content ********************************)
\* ParsedEntry objects as parser.py builds them (guid, url, title, author,
\* summary, content, published_at).
E1 == [guid |-> "g1", url |-> "https://x.com/a", title |-> "A", author |-> "ann",
       summary |-> "s-a", content |-> "c-a", published_at |-> 1]
E2 == [guid |-> "g1", url |-> "https://x.com/a", title |-> "A (edited)", author |-> "ann",
       summary |-> "s-a2", content |-> "c-a2", published_at |-> 2]
E3 == [guid |-> "g2", url |-> "https://x.com/b", title |-> "B", author |-> NoneStr,
       summary |-> NoneStr, content |-> NoneStr, published_at |-> NoTime]

E4 == [guid |-> "g2", url |-> "https://x.com/b", title |-> "B (dated)", author |-> NoneStr,
       summary |-> NoneStr, content |-> NoneStr, published_at |-> 1]

ParsedEntries == {E1, E2, E3, E4}

\* All entry lists of at most n parsed entries, in document order; a list
\* may carry the same guid twice (E1 and E2).
EntryLists(n) == UNION {[1..k -> ParsedEntries] : k \in 0..n}

\* Feed-level metadata as ParsedFeed.__init__ leaves it.
MetaEmpty == [title |-> "", description |-> "", site_url |-> "",
              language |-> NoneStr, icon_url |-> NoneStr]
MetaFull == [title |-> "Blog", description |-> "About", site_url |-> "https://blog.example.com",
             language |-> "en",
             icon_url |-> "https://www.google.com/s2/favicons?domain=blog.example.com&sz=64"]
MetaPartial == [title |-> "Blog v2", description |-> "", site_url |-> "",
                language |-> NoneStr, icon_url |-> "https://cdn.example.com/icon.png"]

Metas == {MetaEmpty, MetaFull, MetaPartial}

MkParsed(m, es) ==
    [title |-> m.title, description |-> m.description, site_url |-> m.site_url,
     language |-> m.language, icon_url |-> m.icon_url, entries |-> es]

\* What parse_feed may return: any entry list under empty metadata, and
\* any metadata over a one-entry list.
ParsedFeeds ==
    {MkParsed(MetaEmpty, es) : es \in EntryLists(MaxParsedLen)}
        \cup {MkParsed(m, <<E1>>) : m \in Metas}
ParsedFeedsSmall == {MkParsed(MetaFull, <<E1>>), MkParsed(MetaEmpty, <<E2, E3>>)}
NoParsed == MkParsed(MetaEmpty, <<>>)

\* cache_headers of a content response.
CacheHeaders == {[etag |-> Absent, last_modified |-> Absent],
                 [etag |-> "W/1", last_modified |-> "Mon"]}
CacheHeadersSmall == {[etag |-> "W/1", last_modified |-> Absent]}

\* str(e) of what fetch_feed raises when the request exceeds the client
\* timeout: the call fails with a timeout error.
TimeoutMessage == "timed out"

\* str(e) of what fetch_feed or parse_feed raises.
ErrorMessages == {TimeoutMessage, "Failed to parse feed: Unknown error"}
ErrorMessagesSmall == {TimeoutMessage}
StaleDataMessage == "UPDATE statement on table 'feeds' expected to update 1 row(s); 0 were matched"
IntegrityMessage == "duplicate key value violates unique constraint"

(*************************** the rows **************************************)
InitFeed ==
    [status |-> "ACTIVE", error_count |-> 0, fetch_error_message |-> NoneStr,
     last_fetched_at |-> NoTime, next_fetch_at |-> NoTime, last_entry_at |-> NoTime,
     etag |-> NoneStr, last_modified |-> NoneStr,
     title |-> "Test Feed", description |-> NoneStr, site_url |-> NoneStr,
     language |-> NoneStr, icon_url |-> NoneStr]

\* Entry(feed_id=feed.id, guid=..., ...): the new row of a parsed entry.
NewEntry(e) ==
    [guid |-> e.guid, url |-> e.url, title |-> e.title, author |-> e.author,
     content |-> e.content, summary |-> e.summary, published_at |-> e.published_at]

\* Number of rows with this guid.
Matching(rows, g) == Cardinality({i \in 1..Len(rows) : rows[i].guid = g})

\* A table without the uniqueness of (feed_id, guid).
AdmitsAll(committed, pending) == FALSE

\* The Entry table holds one row per (feed_id, guid): a flush of rows that
\* would add a second row for a guid is rejected (IntegrityError).
Conflicts(committed, pending) ==
    \E i \in 1..Len(pending) : Matching(committed \o pending, pending[i].guid) > 1

\* session.commit(): the UPDATE carries the columns whose in-memory value
\* differs from the value the session loaded.
Flush(db, loaded, obj) ==
    [k \in DOMAIN db |-> IF obj[k] # loaded[k] THEN obj[k] ELSE db[k]]

(*************************** fetch_feed_task, its parts ********************)
\* The backoff without its cap; C4 tells it from RetryMinutes.
RetryMinutesUncapped(error_count) ==
    BACKOFF_BASE * Pow2(Min(error_count - 1, BACKOFF_MAX_EXP))

\* retry_minutes = min(60, 15 * (2 ** min(feed.error_count - 1, 5)))
RetryMinutes(error_count) ==
    Min(BACKOFF_CAP, BACKOFF_BASE * Pow2(Min(error_count - 1, BACKOFF_MAX_EXP)))

\* The except branch without the increment and the backoff; C19 tells it
\* from HandleFailure.
HandleFailureLogOnly(obj, msg, t) ==
    [obj EXCEPT !.fetch_error_message = msg,
                !.last_fetched_at = t]

\* The except branch with "> 10" for ">= 10"; C5 tells it from HandleFailure.
HandleFailureLate(obj, msg, t) ==
    LET ec == obj.error_count + 1
    IN  [obj EXCEPT !.error_count = ec,
                    !.fetch_error_message = msg,
                    !.last_fetched_at = t,
                    !.status = IF ec > ERROR_LIMIT THEN "ERROR" ELSE @,
                    !.next_fetch_at = t + RetryMinutes(ec)]

\* The except branch, on the feed object of the session, at time t.
HandleFailure(obj, msg, t) ==
    LET ec == obj.error_count + 1
    IN  [obj EXCEPT !.error_count = ec,
                    !.fetch_error_message = msg,
                    !.last_fetched_at = t,
                    !.status = IF ec >= ERROR_LIMIT THEN "ERROR" ELSE @,
                    !.next_fetch_at = t + RetryMinutes(ec)]

\* The update with plain assignment of the parsed display fields; C8 tells
\* it from ApplyParsed.
ApplyParsedClobber(obj, pf, hdrs, t) ==
    [obj EXCEPT !.title = pf.title,
                !.description = pf.description,
                !.site_url = pf.site_url,
                !.language = pf.language,
                !.icon_url = pf.icon_url,
                !.status = "ACTIVE",
                !.error_count = 0,
                !.fetch_error_message = NoneStr,
                !.last_fetched_at = t,
                !.etag = IF hdrs.etag # Absent THEN hdrs.etag ELSE @,
                !.last_modified = IF hdrs.last_modified # Absent THEN hdrs.last_modified ELSE @]

\* The update without the reset of the health fields; C10 tells it from
\* ApplyParsed.
ApplyParsedKeepHealth(obj, pf, hdrs, t) ==
    [obj EXCEPT !.title = PyOr(pf.title, @),
                !.description = PyOr(pf.description, @),
                !.site_url = PyOr(pf.site_url, @),
                !.language = PyOr(pf.language, @),
                !.icon_url = PyOr(pf.icon_url, @),
                !.last_fetched_at = t,
                !.etag = IF hdrs.etag # Absent THEN hdrs.etag ELSE @,
                !.last_modified = IF hdrs.last_modified # Absent THEN hdrs.last_modified ELSE @]

\* "Update feed metadata" and "Update cache headers", at time t.
ApplyParsed(obj, pf, hdrs, t) ==
    [obj EXCEPT !.title = PyOr(pf.title, @),
                !.description = PyOr(pf.description, @),
                !.site_url = PyOr(pf.site_url, @),
                !.language = PyOr(pf.language, @),
                !.icon_url = PyOr(pf.icon_url, @),
                !.status = "ACTIVE",
                !.error_count = 0,
                !.fetch_error_message = NoneStr,
                !.last_fetched_at = t,
                !.etag = IF hdrs.etag # Absent THEN hdrs.etag ELSE @,
                !.last_modified = IF hdrs.last_modified # Absent THEN hdrs.last_modified ELSE @]

\* The state of the entry loop: the rows added to the session, the counter
\* and latest_entry_time.
StartLoop(obj) ==
    [pending |-> <<>>, new_entries |-> 0, latest |-> obj.last_entry_at]

\* One iteration without the lookup: every parsed entry is added.  C2 tells
\* it from ProcessEntry.
ProcessEntryNoLookup(rs, committed, e) ==
    [rs EXCEPT !.pending = Append(@, NewEntry(e)),
               !.new_entries = @ + 1,
               !.latest = IF e.published_at # NoTime
                             /\ (@ = NoTime \/ e.published_at > @)
                          THEN e.published_at ELSE @]

\* One iteration whose lookup compares the whole entry, so that a changed
\* version of a known guid counts as new.  C18 tells it from ProcessEntry.
ProcessEntryByFields(rs, committed, e) ==
    LET rows == committed \o rs.pending
        n == Cardinality({i \in 1..Len(rows) : rows[i] = NewEntry(e)})
    IN  IF n >= 1 THEN rs
        ELSE [rs EXCEPT !.pending = Append(@, NewEntry(e)),
                        !.new_entries = @ + 1,
                        !.latest = IF e.published_at # NoTime
                                      /\ (@ = NoTime \/ e.published_at > @)
                                   THEN e.published_at ELSE @]

\* One iteration that takes the published_at of every added entry as the
\* latest, without comparing.  C17 tells it from ProcessEntry.
ProcessEntryLatestLast(rs, committed, e) ==
    LET n == Matching(committed \o rs.pending, e.guid)
    IN  IF n >= 1 THEN rs
        ELSE [rs EXCEPT !.pending = Append(@, NewEntry(e)),
                        !.new_entries = @ + 1,
                        !.latest = IF e.published_at # NoTime
                                   THEN e.published_at ELSE @]

\* One iteration of "for parsed_entry in parsed_feed.entries": the lookup
\* sees the committed rows and the rows this session has added.
ProcessEntry(rs, committed, e) ==
    LET n == Matching(committed \o rs.pending, e.guid)
    IN  IF n >= 1 THEN rs
        ELSE [rs EXCEPT !.pending = Append(@, NewEntry(e)),
                        !.new_entries = @ + 1,
                        !.latest = IF e.published_at # NoTime
                                      /\ (@ = NoTime \/ e.published_at > @)
                                   THEN e.published_at ELSE @]

\* The whole loop over es[i..], run without interruption.
RECURSIVE ProcessAll(_, _, _, _)
ProcessAll(rs, committed, es, i) ==
    IF i > Len(es) THEN rs
    ELSE ProcessAll(ProcessEntry(rs, committed, es[i]), committed, es, i + 1)

\* "Update last_entry_at and schedule next fetch", at time t.
FinishSuccess(obj, latest, t) ==
    [obj EXCEPT !.last_entry_at = IF latest # NoTime THEN latest ELSE @,
                !.next_fetch_at = t + FETCH_INTERVAL]

\* The not-modified branch, at time t.
TouchNotModified(obj, t) == [obj EXCEPT !.last_fetched_at = t]

(*************************** history ***************************************)
IdleTask ==
    [pc |-> "idle", loaded |-> InitFeed, obj |-> InitFeed, parsed |-> NoParsed,
     idx |-> 0, rs |-> StartLoop(InitFeed)]

NoRet == [status |-> "none", new_entries |-> 0, message |-> NoneStr]

NoLast == [status |-> "none", parsed |-> NoParsed, repeat |-> FALSE,
           prev_status |-> "ACTIVE", prev_error_count |-> 0, fails |-> 0,
           job |-> "none", tick |-> 0]

\* The record of a run that ends with `status`, having parsed pf.
Finished(status, pf) ==
    [status |-> status, parsed |-> pf,
     repeat |-> (status = "success" /\ last.status = "success" /\ last.parsed = pf),
     prev_status |-> feed.status, prev_error_count |-> feed.error_count,
     fails |-> (IF status \in {"retry", "crashed"} THEN last.fails + 1 ELSE 0),
     job |-> "none", tick |-> 0]

\* Failing runs in a row, counted from a row with error_count = 0; -1 when
\* the runs in a row did not start from error_count = 0.
StreakAfter(status, row) ==
    IF status = "retry" THEN (IF streak >= 0 THEN streak + 1 ELSE streak)
    ELSE IF row.error_count = 0 THEN 0 ELSE -1

\* No fetch_all_feeds has run.
NoSweep == [at |-> NoTime, feeds_queued |-> 0]

\* Nothing has been called outside the fetch pipeline.
NoCall == [fn |-> "none"]
Untouched ==
    /\ call = NoCall
    /\ folders = <<>>
    /\ subs = {}
    /\ enqueued = <<>>

Init ==
    /\ feed = InitFeed
    /\ entries = <<>>
    /\ now = 0
    /\ task = [w \in Workers |-> IdleTask]
    /\ ret = [w \in Workers |-> NoRet]
    /\ last = NoLast
    /\ streak = 0
    /\ present = TRUE
    /\ queue = <<>>
    /\ sweep = NoSweep
    /\ Untouched

(*************************** runs, one after another ***********************)
\* A whole run whose fetch answers 304.
RunNotModified(limit) ==
    /\ now < limit
    /\ now' = now + 1
    /\ feed' = Flush(feed, feed, TouchNotModified(feed, now'))
    /\ ret' = [ret EXCEPT ![1] = [status |-> "not_modified", new_entries |-> 0,
                                  message |-> NoneStr]]
    /\ last' = Finished("not_modified", NoParsed)
    /\ streak' = StreakAfter("not_modified", feed')
    /\ UNCHANGED <<entries, task, present, queue, sweep, others>>

\* A whole run whose fetch or parse raises.
RunFailed(limit, msg) ==
    /\ now < limit
    /\ now' = now + 1
    /\ feed' = Flush(feed, feed, HandleFailure(feed, msg, now'))
    /\ ret' = [ret EXCEPT ![1] = [status |-> "retry", new_entries |-> 0, message |-> msg]]
    /\ last' = Finished("retry", NoParsed)
    /\ streak' = StreakAfter("retry", feed')
    /\ UNCHANGED <<entries, task, present, queue, sweep, others>>

\* A whole run that fetches and parses pf.  When the flush of the added
\* rows is rejected, the except branch can not use the session (its select
\* raises PendingRollbackError), nothing is committed and the job fails.
RunContent(limit, pf, hdrs) ==
    /\ now < limit
    /\ now' = now + 1
    /\ \E obj \in {ApplyParsed(feed, pf, hdrs, now + 1)} :
       \E rs \in {ProcessAll(StartLoop(obj), entries, pf.entries, 1)} :
          IF Conflicts(entries, rs.pending)
          THEN /\ ret' = [ret EXCEPT ![1] = [status |-> "crashed", new_entries |-> 0,
                                             message |-> IntegrityMessage]]
               /\ last' = Finished("crashed", pf)
               /\ UNCHANGED <<feed, entries, streak>>
          ELSE /\ entries' = entries \o rs.pending
               /\ feed' = Flush(feed, feed, FinishSuccess(obj, rs.latest, now + 1))
               /\ ret' = [ret EXCEPT ![1] = [status |-> "success",
                                             new_entries |-> rs.new_entries,
                                             message |-> NoneStr]]
               /\ last' = Finished("success", pf)
               /\ streak' = StreakAfter("success", feed')
    /\ UNCHANGED <<task, present, queue, sweep, others>>

NextSeq ==
    \/ RunNotModified(MaxRuns)
    \/ \E msg \in ErrorMessages : RunFailed(MaxRuns, msg)
    \/ \E pf \in ParsedFeeds, hdrs \in CacheHeaders : RunContent(MaxRuns, pf, hdrs)

SpecSeq == Init /\ [][NextSeq]_vars

NextHealth ==
    \/ RunNotModified(MaxTime)
    \/ \E msg \in ErrorMessages : RunFailed(MaxTime, msg)
    \/ \E pf \in ParsedFeedsSmall, hdrs \in CacheHeadersSmall : RunContent(MaxTime, pf, hdrs)

SpecHealth == Init /\ [][NextHealth]_vars

(*************************** deletion **************************************)
\* The record of an operation other than a run.
Operated(name) == [NoLast EXCEPT !.status = name, !.tick = last.tick]

\* AdminService.delete_feed and batch_feed_operation("delete"): the feed
\* and all related data go.
DeleteFeed ==
    /\ present
    /\ present' = FALSE
    /\ entries' = <<>>
    /\ last' = Operated("delete_feed")
    /\ UNCHANGED <<feed, now, task, ret, streak, queue, sweep, others>>

(*************************** runs, step by step ****************************)
\* The history variables describe runs that execute one after another;
\* the steps of the workers leave them alone.  An admin may delete the feed
\* between any two steps.
\* A worker picks the job up and loads the feed row into its session; when
\* the row is not there the task returns an error result at once.
Start(w) ==
    /\ task[w].pc = "idle"
    /\ now < MaxTimeConc
    /\ now' = now + 1
    /\ IF present
       THEN /\ task' = [task EXCEPT ![w] = [IdleTask EXCEPT !.pc = "fetching",
                                                            !.loaded = feed, !.obj = feed]]
            /\ ret' = ret
       ELSE /\ task' = task
            /\ ret' = [ret EXCEPT ![w] = [status |-> "error", new_entries |-> 0,
                                          message |-> "Feed not found"]]
    /\ UNCHANGED <<feed, entries, last, streak, present, queue, sweep, others>>

\* fetch_feed returns None (304): touch last_fetched_at, commit, return.
NotModified(w) ==
    /\ task[w].pc = "fetching"
    /\ present
    /\ feed' = Flush(feed, task[w].loaded, TouchNotModified(task[w].obj, now))
    /\ task' = [task EXCEPT ![w] = IdleTask]
    /\ ret' = [ret EXCEPT ![w] = [status |-> "not_modified", new_entries |-> 0,
                                  message |-> NoneStr]]
    /\ UNCHANGED <<entries, now, last, streak, present, queue, sweep, others>>

\* fetch_feed or parse_feed raises: the except branch re-selects the feed,
\* which gives the object the session already holds, and commits.  When the
\* row has been deleted since the run loaded it the select gives None, the
\* bookkeeping is skipped and Retry is raised all the same.
FetchFailed(w, msg) ==
    /\ task[w].pc = "fetching"
    /\ feed' = IF present
               THEN Flush(feed, task[w].loaded, HandleFailure(task[w].obj, msg, now))
               ELSE feed
    /\ task' = [task EXCEPT ![w] = IdleTask]
    /\ ret' = [ret EXCEPT ![w] = [status |-> "retry", new_entries |-> 0, message |-> msg]]
    /\ UNCHANGED <<entries, now, last, streak, present, queue, sweep, others>>

\* Content fetched and parsed: the feed object is updated in memory and the
\* entry loop starts.
ContentReceived(w, pf, hdrs) ==
    /\ task[w].pc = "fetching"
    /\ \E obj \in {ApplyParsed(task[w].obj, pf, hdrs, now)} :
          task' = [task EXCEPT ![w].pc = "reconciling", ![w].obj = obj,
                               ![w].parsed = pf, ![w].idx = 1,
                               ![w].rs = StartLoop(obj)]
    /\ UNCHANGED <<feed, entries, now, ret, last, streak, present, queue, sweep, others>>

\* An except branch that could go on with the session after a rejected
\* flush: it would commit the failure on the feed object as the run has
\* left it in memory.  C28 tells it from FlushFailed.
FlushFailedCommits(w) ==
    /\ \/ task[w].pc = "reconciling" /\ Conflicts(entries, task[w].rs.pending)
       \/ task[w].pc # "idle" /\ ~present
    /\ feed' = IF present
               THEN Flush(feed, task[w].loaded,
                          HandleFailure(task[w].obj, IntegrityMessage, now))
               ELSE feed
    /\ task' = [task EXCEPT ![w] = IdleTask]
    /\ ret' = [ret EXCEPT ![w] = [status |-> "retry", new_entries |-> 0,
                                  message |-> IntegrityMessage]]
    /\ UNCHANGED <<entries, now, last, streak, present, queue, sweep, others>>

\* The session flushes the rows it has added before the next lookup and at
\* commit.  When another run has meanwhile committed a row for one of their
\* guids the flush raises IntegrityError; the select of the except branch
\* then raises PendingRollbackError out of the task: nothing of this run is
\* committed and no Retry is raised.  The same happens when the UPDATE of
\* the feed row the run has changed finds the row deleted (StaleDataError),
\* in the not-modified branch as well as after content.
FlushFailed(w) ==
    /\ \/ task[w].pc = "reconciling" /\ Conflicts(entries, task[w].rs.pending)
       \/ task[w].pc # "idle" /\ ~present
    /\ task' = [task EXCEPT ![w] = IdleTask]
    /\ ret' = [ret EXCEPT ![w] = [status |-> "crashed", new_entries |-> 0,
                                  message |-> IF present THEN IntegrityMessage
                                                         ELSE StaleDataMessage]]
    /\ UNCHANGED <<feed, entries, now, last, streak, present, queue, sweep, others>>

\* One iteration of the entry loop.
ProcessNext(w) ==
    /\ task[w].pc = "reconciling"
    /\ present
    /\ ~Conflicts(entries, task[w].rs.pending)
    /\ task[w].idx <= Len(task[w].parsed.entries)
    /\ \E rs \in {ProcessEntry(task[w].rs, entries, task[w].parsed.entries[task[w].idx])} :
          task' = [task EXCEPT ![w].rs = rs, ![w].idx = @ + 1]
    /\ UNCHANGED <<feed, entries, ret, now, last, streak, present, queue, sweep, others>>

\* After the loop: watermark, next fetch, commit, return.
Complete(w) ==
    /\ task[w].pc = "reconciling"
    /\ present
    /\ ~Conflicts(entries, task[w].rs.pending)
    /\ task[w].idx > Len(task[w].parsed.entries)
    /\ feed' = Flush(feed, task[w].loaded,
                     FinishSuccess(task[w].obj, task[w].rs.latest, now))
    /\ entries' = entries \o task[w].rs.pending
    /\ task' = [task EXCEPT ![w] = IdleTask]
    /\ ret' = [ret EXCEPT ![w] = [status |-> "success",
                                  new_entries |-> task[w].rs.new_entries,
                                  message |-> NoneStr]]
    /\ UNCHANGED <<now, last, streak, present, queue, sweep, others>>

Next ==
    \/ \E w \in Workers :
          \/ Start(w)
          \/ NotModified(w)
          \/ \E msg \in ErrorMessagesSmall : FetchFailed(w, msg)
          \/ \E pf \in ParsedFeedsSmall, hdrs \in CacheHeadersSmall : ContentReceived(w, pf, hdrs)
          \/ FlushFailed(w)
          \/ ProcessNext(w)
          \/ Complete(w)
    \/ DeleteFeed

Spec == Init /\ [][Next]_vars

(*************************** the dispatcher and the admin ******************)
FeedStatuses == {"ACTIVE", "ERROR", "DISABLED"}

\* The row after n failing runs at minute 0.
RECURSIVE FailTimes(_, _)
FailTimes(row, n) ==
    IF n = 0 THEN row ELSE FailTimes(HandleFailure(row, "timed out", 0), n - 1)

\* The where clause of fetch_all_feeds without the status; C21 tells it
\* from IsDue.
IsDueAnyStatus(row, t) ==
    row.next_fetch_at = NoTime \/ row.next_fetch_at <= t

\* The where clause of fetch_all_feeds with "<" for "<="; C13 tells it from
\* IsDue.
IsDueStrict(row, t) ==
    /\ row.status = "ACTIVE"
    /\ (row.next_fetch_at = NoTime \/ row.next_fetch_at < t)

\* The where clause of fetch_all_feeds.
IsDue(row, t) ==
    /\ row.status = "ACTIVE"
    /\ (row.next_fetch_at = NoTime \/ row.next_fetch_at <= t)

\* Time passes.
Advance(d) ==
    /\ now + d <= MaxClock
    /\ now' = now + d
    /\ UNCHANGED <<feed, entries, task, ret, last, streak, present, queue, sweep, others>>

\* fetch_all_feeds: one job for the feed when it is ACTIVE and due.
FetchAllFeeds ==
    /\ sweep.at # now
    /\ Len(queue) < MaxQueue
    /\ IF present /\ IsDue(feed, now)
       THEN /\ queue' = Append(queue, [kind |-> "sweep", at |-> NoTime])
            /\ sweep' = [at |-> now, feeds_queued |-> 1]
       ELSE /\ queue' = queue
            /\ sweep' = [at |-> now, feeds_queued |-> 0]
    /\ UNCHANGED <<feed, entries, now, task, ret, last, streak, present, others>>

\* refresh_feed and refresh_all_feeds: one job for the feed of the
\* subscription, whatever the feed's status and next_fetch_at.
RefreshFeed ==
    /\ present
    /\ Len(queue) < MaxQueue
    /\ queue' = Append(queue, [kind |-> "refresh", at |-> NoTime])
    /\ UNCHANGED <<feed, entries, now, task, ret, last, streak, present, sweep, others>>

\* AdminService.reset_feed_error.
ResetFeedError ==
    /\ present
    /\ feed' = [feed EXCEPT !.error_count = 0,
                            !.fetch_error_message = NoneStr,
                            !.status = "ACTIVE"]
    /\ last' = [Operated("reset_feed_error") EXCEPT !.prev_status = feed.status]
    /\ UNCHANGED <<entries, now, task, ret, streak, present, queue, sweep, others>>

\* AdminService.update_feed(status=st).
UpdateFeed(st) ==
    /\ present
    /\ feed' = [feed EXCEPT !.status = st]
    /\ last' = Operated("update_feed")
    /\ UNCHANGED <<entries, now, task, ret, streak, present, queue, sweep, others>>

\* AdminService.batch_feed_operation("enable" | "disable").
BatchFeedOperation(action) ==
    /\ present
    /\ feed' = [feed EXCEPT !.status = IF action = "enable" THEN "ACTIVE" ELSE "DISABLED"]
    /\ last' = Operated(action)
    /\ UNCHANGED <<entries, now, task, ret, streak, present, queue, sweep, others>>

\* arq hands a job to the worker when its time has come; a job queued
\* without defer (at = NoTime) may run at once.
Due(j) == j \in 1..Len(queue) /\ queue[j].at <= now
Without(q, j) == SubSeq(q, 1, j - 1) \o SubSeq(q, j + 1, Len(q))

\* The record of a run of job j; tick flips with every run.
FinishedJob(status, pf, j) ==
    [Operated(status) EXCEPT !.job = queue[j].kind, !.tick = 1 - last.tick]

\* A dispatcher that is not asked to retry for a feed in ERROR; C15 tells
\* it from RetryJobs.
RetryJobsUnlessError(row, t) ==
    IF row.status = "ERROR" THEN <<>> ELSE <<[kind |-> "retry", at |-> t + RETRY_DEFER]>>

\* raise Retry(defer=timedelta(minutes=5)): arq queues the job again, to
\* run five minutes later, whatever the feed row holds.
RetryJobs(row, t) == <<[kind |-> "retry", at |-> t + RETRY_DEFER]>>

\* A whole run for a feed that is not in the table.
JobFeedNotFound(j) ==
    /\ Due(j)
    /\ ~present
    /\ queue' = Without(queue, j)
    /\ ret' = [ret EXCEPT ![1] = [status |-> "error", new_entries |-> 0,
                                  message |-> "Feed not found"]]
    /\ last' = FinishedJob("error", NoParsed, j)
    /\ UNCHANGED <<feed, entries, now, task, streak, present, sweep, others>>

\* A whole run whose fetch answers 304.
JobNotModified(j) ==
    /\ Due(j)
    /\ present
    /\ queue' = Without(queue, j)
    /\ feed' = Flush(feed, feed, TouchNotModified(feed, now))
    /\ ret' = [ret EXCEPT ![1] = [status |-> "not_modified", new_entries |-> 0,
                                  message |-> NoneStr]]
    /\ last' = FinishedJob("not_modified", NoParsed, j)
    /\ UNCHANGED <<entries, now, task, streak, present, sweep, others>>

\* A whole run whose fetch or parse raises: the failure is committed and
\* Retry(defer=5 minutes) makes arq queue the job again.
JobFailed(j, msg) ==
    /\ Due(j)
    /\ present
    /\ feed.error_count < MaxErrors
    /\ feed' = Flush(feed, feed, HandleFailure(feed, msg, now))
    /\ queue' = Without(queue, j) \o RetryJobs(feed', now)
    /\ ret' = [ret EXCEPT ![1] = [status |-> "retry", new_entries |-> 0, message |-> msg]]
    /\ last' = FinishedJob("retry", NoParsed, j)
    /\ UNCHANGED <<entries, now, task, streak, present, sweep, others>>

\* A whole run that fetches and parses pf.
JobContent(j, pf, hdrs) ==
    /\ Due(j)
    /\ present
    /\ queue' = Without(queue, j)
    /\ \E obj \in {ApplyParsed(feed, pf, hdrs, now)} :
       \E rs \in {ProcessAll(StartLoop(obj), entries, pf.entries, 1)} :
          IF Conflicts(entries, rs.pending)
          THEN /\ ret' = [ret EXCEPT ![1] = [status |-> "crashed", new_entries |-> 0,
                                             message |-> IntegrityMessage]]
               /\ last' = FinishedJob("crashed", pf, j)
               /\ UNCHANGED <<feed, entries>>
          ELSE /\ entries' = entries \o rs.pending
               /\ feed' = Flush(feed, feed, FinishSuccess(obj, rs.latest, now))
               /\ ret' = [ret EXCEPT ![1] = [status |-> "success",
                                             new_entries |-> rs.new_entries,
                                             message |-> NoneStr]]
               /\ last' = FinishedJob("success", pf, j)
    /\ UNCHANGED <<now, task, streak, present, sweep, others>>

\* The feed at the start: new, or after nine failing runs at minute 0.
InitOps ==
    /\ feed \in {InitFeed, FailTimes(InitFeed, 9)}
    /\ entries = <<>>
    /\ now = 0
    /\ task = [w \in Workers |-> IdleTask]
    /\ ret = [w \in Workers |-> NoRet]
    /\ last = NoLast
    /\ streak = 0
    /\ present = TRUE
    /\ queue = <<>>
    /\ sweep = NoSweep
    /\ Untouched

NextOps ==
    \/ Advance(RETRY_DEFER)
    \/ FetchAllFeeds
    \/ RefreshFeed
    \/ ResetFeedError
    \/ \E st \in FeedStatuses : UpdateFeed(st)
    \/ \E action \in {"enable", "disable"} : BatchFeedOperation(action)
    \/ DeleteFeed
    \/ \E j \in 1..MaxQueue :
          \/ JobFeedNotFound(j)
          \/ JobNotModified(j)
          \/ \E msg \in ErrorMessagesSmall : JobFailed(j, msg)
          \/ \E hdrs \in CacheHeadersSmall : JobContent(j, MkParsed(MetaFull, <<E1>>), hdrs)

SpecOps == InitOps /\ [][NextOps]_vars

(*************************** a feed whose every fetch fails ****************)
\* The worker keeps up with the clock: five minutes pass when the sweep of
\* this minute has run (or the queue is full) and no queued job is due.
Tick ==
    /\ now + RETRY_DEFER <= MaxLive
    /\ sweep.at = now \/ Len(queue) >= MaxQueue
    /\ \A j \in 1..Len(queue) : ~Due(j)
    /\ now' = now + RETRY_DEFER
    /\ UNCHANGED <<feed, entries, task, ret, last, streak, present, queue, sweep, others>>

\* arq gives up on a job that has been retried max_tries times.
JobDropped(j) ==
    /\ Due(j)
    /\ queue[j].kind = "retry"
    /\ queue' = Without(queue, j)
    /\ UNCHANGED <<feed, entries, now, task, ret, last, streak, present, sweep, others>>

\* The external reset of a feed in ERROR.
ResetOfError == feed.status = "ERROR" /\ ResetFeedError

\* A run of some due job.
RunsDueJob ==
    \E j \in 1..MaxQueue :
        \/ \E msg \in ErrorMessagesSmall : JobFailed(j, msg)
        \/ JobDropped(j)

NextLive ==
    \/ Tick
    \/ FetchAllFeeds
    \/ RunsDueJob
    \/ ResetOfError

\* scheduled_fetch is a cron job and arq runs every job whose time has come.
FairLive == WF_vars(Tick) /\ WF_vars(FetchAllFeeds) /\ WF_vars(RunsDueJob)

SpecLive == Init /\ [][NextLive]_vars /\ FairLive

(*************************** the parser ************************************)
\* dict.get(key, default) on a value that is Absent when the key is missing.
Get(v, default) == IF v = Absent THEN default ELSE v

\* published_parsed / updated_parsed: a time tuple (a minute), a tuple that
\* datetime() rejects, or nothing.
BadTuple == -2
ToDatetime(published) == IF published = BadTuple THEN NoTime ELSE published

\* ParsedEntry.__init__ with "or" dropped from the guid; C22 tells it from
\* ParsedEntry.
ParsedEntryIdOnly(data) ==
    [guid |-> Get(data.id, NoneStr),
     url |-> Get(data.link, ""),
     title |-> Get(data.title, ""),
     author |-> Get(data.author, NoneStr),
     summary |-> Get(data.summary, NoneStr),
     content |-> IF Len(data.content) > 0 THEN data.content[1]
                 ELSE Get(data.summary, NoneStr),
     published_at |->
         IF data.published_parsed # NoTime THEN ToDatetime(data.published_parsed)
         ELSE IF data.updated_parsed # NoTime THEN ToDatetime(data.updated_parsed)
         ELSE NoTime]

\* ParsedEntry.__init__ on one entry of feedparser's result.
ParsedEntry(data) ==
    [guid |-> PyOr(Get(data.id, NoneStr), Get(data.link, "")),
     url |-> Get(data.link, ""),
     title |-> Get(data.title, ""),
     author |-> Get(data.author, NoneStr),
     summary |-> Get(data.summary, NoneStr),
     content |-> IF Len(data.content) > 0 THEN data.content[1]
                 ELSE Get(data.summary, NoneStr),
     published_at |->
         IF data.published_parsed # NoTime THEN ToDatetime(data.published_parsed)
         ELSE IF data.updated_parsed # NoTime THEN ToDatetime(data.updated_parsed)
         ELSE NoTime]

\* Entries as feedparser may hand them over: every key present, absent or
\* (for id and link) empty.
EntryDatas ==
    [id : {Absent, "", "tag:x.com,2024:a"},
     link : {Absent, "", "https://x.com/a"},
     title : {Absent, "A"},
     author : {Absent},
     summary : {Absent, "s-a"},
     content : {<<>>, <<"c-a">>},
     published_parsed : {NoTime, 1, BadTuple},
     updated_parsed : {NoTime, 2}]

\* The state before and after a call outside the fetch pipeline.
PipelineIdle ==
    /\ feed = InitFeed
    /\ entries = <<>>
    /\ now = 0
    /\ task = [w \in Workers |-> IdleTask]
    /\ ret = [w \in Workers |-> NoRet]
    /\ last = NoLast
    /\ streak = 0
    /\ present = TRUE
    /\ queue = <<>>
    /\ sweep = NoSweep

\* ParsedEntry(data) is called on the entry waiting in `call`.
CallParsedEntry ==
    /\ call.fn = "entry_data"
    /\ call' = [fn |-> "ParsedEntry", data |-> call.data,
                result |-> ParsedEntry(call.data)]
    /\ UNCHANGED <<pipeline, folders, subs, enqueued>>

\* Text that the parser takes apart is a sequence of characters.  None and
\* a missing key are one-element sequences that are no text.
NoneText == <<"<None>">>
AbsentText == <<"<absent>">>
Alpha == {"a", "b", "c", "d", "e", "f", "g", "h", "i", "j", "k", "l", "m", "n", "o", "p", "q", "r", "s", "t", "u", "v", "w", "x", "y", "z", "A", "B", "C", "D", "E", "F", "G", "H", "I", "J", "K", "L", "M", "N", "O", "P", "Q", "R", "S", "T", "U", "V", "W", "X", "Y", "Z"}
Digit == {"0", "1", "2", "3", "4", "5", "6", "7", "8", "9"}
SchemeChars == Alpha \cup Digit \cup {"+", "-", "."}

\* s.find(c), counted from 1; 0 when c is not in s.
Find(s, cs, from) ==
    IF \E k \in from..Len(s) : s[k] \in cs
    THEN CHOOSE k \in from..Len(s) : s[k] \in cs /\ \A m \in from..(k - 1) : s[m] \notin cs
    ELSE 0

\* urllib.parse.urlparse(url), as far as scheme and netloc go: the scheme
\* is what stands before the first ":" when that is a letter followed by
\* scheme characters; the netloc is what follows "//" up to the next "/",
\* "?" or "#", user information and port included.
UrlParse(url) ==
    LET i == Find(url, {":"}, 1)
        has_scheme == /\ i > 1
                      /\ url[1] \in Alpha
                      /\ \A k \in 1..(i - 1) : url[k] \in SchemeChars
        rest == IF has_scheme THEN SubSeq(url, i + 1, Len(url)) ELSE url
        has_netloc == Len(rest) >= 2 /\ rest[1] = "/" /\ rest[2] = "/"
        delim == Find(rest, {"/", "?", "#"}, 3)
    IN  [scheme |-> IF has_scheme THEN SubSeq(url, 1, i - 1) ELSE <<>>,
         netloc |-> IF has_netloc
                    THEN SubSeq(rest, 3, IF delim = 0 THEN Len(rest) ELSE delim - 1)
                    ELSE <<>>]

FaviconPrefix == <<"h", "t", "t", "p", "s", ":", "/", "/", "w", "w", "w", ".", "g", "o", "o", "g", "l", "e", ".", "c", "o", "m", "/", "s", "2", "/", "f", "a", "v", "i", "c", "o", "n", "s", "?", "d", "o", "m", "a", "i", "n", "=">>
FaviconSuffix == <<"&", "s", "z", "=", "6", "4">>

\* _get_favicon_url without the check of scheme and netloc; C23 tells it
\* from GetFaviconUrl.
GetFaviconUrlUnchecked(site_url) ==
    IF site_url \in {NoneText, <<>>} THEN NoneText
    ELSE FaviconPrefix \o UrlParse(site_url).netloc \o FaviconSuffix

\* _get_favicon_url(site_url).
GetFaviconUrl(site_url) ==
    IF site_url \in {NoneText, <<>>} THEN NoneText
    ELSE LET parsed == UrlParse(site_url)
         IN  IF parsed.scheme = <<>> \/ parsed.netloc = <<>> THEN NoneText
             ELSE FaviconPrefix \o parsed.netloc \o FaviconSuffix

\* "a or b" on texts.
TextOr(a, b) == IF a \in {NoneText, <<>>} THEN b ELSE a
GetText(v, default) == IF v = AbsentText THEN default ELSE v

\* ParsedFeed.__init__ on the "feed" part of feedparser's result; the
\* entries are left to ParseFeed.
ParsedFeed(feed_info) ==
    LET site_url == GetText(feed_info.link, <<>>)
    IN  [title |-> Get(feed_info.title, ""),
         description |-> Get(feed_info.description, ""),
         site_url |-> site_url,
         language |-> Get(feed_info.language, NoneStr),
         icon_url |-> TextOr(TextOr(GetText(feed_info.icon, NoneText),
                                    GetText(feed_info.logo, NoneText)),
                             GetFaviconUrl(site_url))]

\* Values of <link>, <icon> and <logo>.
UrlPlain == <<"h", "t", "t", "p", "s", ":", "/", "/", "b", "l", "o", "g", ".", "e", "x", "a", "m", "p", "l", "e", ".", "c", "o", "m">>
UrlPort == <<"h", "t", "t", "p", ":", "/", "/", "e", "x", "a", "m", "p", "l", "e", ".", "c", "o", "m", ":", "8", "0", "8", "0", "/", "b", "l", "o", "g">>
UrlUser == <<"h", "t", "t", "p", "s", ":", "/", "/", "a", "n", "n", ":", "p", "w", "@", "e", "x", "a", "m", "p", "l", "e", ".", "c", "o", "m", "/">>
UrlNoSlashes == <<"n", "o", "t", "-", "a", "-", "u", "r", "l">>
UrlRelative == <<"/", "b", "l", "o", "g", "/", "f", "e", "e", "d">>
UrlNoScheme == <<"/", "/", "e", "x", "a", "m", "p", "l", "e", ".", "c", "o", "m", "/", "x">>
UrlMailto == <<"m", "a", "i", "l", "t", "o", ":", "a", "n", "n", "@", "e", "x", "a", "m", "p", "l", "e", ".", "c", "o", "m">>
IconUrl == <<"h", "t", "t", "p", "s", ":", "/", "/", "x", ".", "c", "o", "m", "/", "i", ".", "p", "n", "g">>
LogoUrl == <<"h", "t", "t", "p", "s", ":", "/", "/", "x", ".", "c", "o", "m", "/", "l", ".", "p", "n", "g">>
HostPlain == <<"b", "l", "o", "g", ".", "e", "x", "a", "m", "p", "l", "e", ".", "c", "o", "m">>
HostPort == <<"e", "x", "a", "m", "p", "l", "e", ".", "c", "o", "m", ":", "8", "0", "8", "0">>
HostOfUser == <<"e", "x", "a", "m", "p", "l", "e", ".", "c", "o", "m">>

SiteUrls == {AbsentText, <<>>, UrlPlain, UrlPort, UrlUser, UrlNoSlashes, UrlRelative,
             UrlNoScheme, UrlMailto}

FeedInfos ==
    [title : {Absent, "Blog"},
     description : {Absent},
     language : {Absent, "en"},
     link : SiteUrls,
     icon : {AbsentText, <<>>, IconUrl},
     logo : {AbsentText, <<>>, LogoUrl}]

\* parse_feed that fails on every feed feedparser flags; C24 tells it from
\* ParseFeed.
ParseFeedStrict(data) ==
    IF data.bozo
    THEN [raised |-> TRUE, message |-> "Failed to parse feed: Unknown error"]
    ELSE [raised |-> FALSE, feed |-> ParsedFeed(data.feed),
          entries |-> [k \in 1..Len(data.entries) |-> ParsedEntry(data.entries[k])]]

\* parse_feed on what feedparser.parse(content) returned: bozo is set when
\* the content is malformed, entries are in document order.
ParseFeed(data) ==
    IF data.bozo /\ Len(data.entries) = 0
    THEN [raised |-> TRUE, message |-> "Failed to parse feed: Unknown error"]
    ELSE [raised |-> FALSE, feed |-> ParsedFeed(data.feed),
          entries |-> [k \in 1..Len(data.entries) |-> ParsedEntry(data.entries[k])]]

\* Three entries of a document, told apart by their links.
DocEntry(id, link, title) ==
    [id |-> id, link |-> link, title |-> title, author |-> Absent, summary |-> Absent,
     content |-> <<>>, published_parsed |-> NoTime, updated_parsed |-> NoTime]
DocEntries == {DocEntry("tag:x.com,2024:a", "https://x.com/a", "A"),
               DocEntry(Absent, "https://x.com/b", "B"),
               DocEntry(Absent, Absent, Absent)}
DocFeed(link) ==
    [title |-> "Blog", description |-> Absent, language |-> Absent, link |-> link,
     icon |-> AbsentText, logo |-> AbsentText]

\* What feedparser.parse may return.
FeedparserResults ==
    [bozo : BOOLEAN,
     feed : {DocFeed(UrlPlain), DocFeed(AbsentText)},
     entries : UNION {[1..n -> DocEntries] : n \in 0..MaxDocLen}]

\* ParsedFeed(data) is called on the feed metadata waiting in `call`.
CallParsedFeed ==
    /\ call.fn = "feed_info"
    /\ call' = [fn |-> "ParsedFeed", data |-> call.data,
                result |-> ParsedFeed(call.data)]
    /\ UNCHANGED <<pipeline, folders, subs, enqueued>>

\* parse_feed runs on the feedparser result waiting in `call`.
CallParseFeed ==
    /\ call.fn = "feedparser_result"
    /\ call' = [fn |-> "parse_feed", data |-> call.data,
                result |-> ParseFeed(call.data)]
    /\ UNCHANGED <<pipeline, folders, subs, enqueued>>

InitParse ==
    /\ PipelineIdle
    /\ call \in {[fn |-> "entry_data", data |-> d] : d \in EntryDatas}
           \cup {[fn |-> "feed_info", data |-> d] : d \in FeedInfos}
           \cup {[fn |-> "feedparser_result", data |-> d] : d \in FeedparserResults}
    /\ folders = <<>>
    /\ subs = {}
    /\ enqueued = <<>>

NextParse ==
    \/ CallParsedEntry
    \/ CallParsedFeed
    \/ CallParseFeed

SpecParse == InitParse /\ [][NextParse]_vars

(*************************** the sanitizer *********************************)
\* An html string is a sequence of letters, blanks and tags.
HtmlTokens == {"w", " ", "<br>"}
Htmls == UNION {[1..n -> HtmlTokens] : n \in 0..MaxHtmlLen}

\* soup.get_text(separator=" "): the text nodes, a blank between them.
RECURSIVE GetTextOf(_)
GetTextOf(html) ==
    IF html = <<>> THEN <<>>
    ELSE (IF Head(html) = "<br>" THEN <<" ">> ELSE <<Head(html)>>) \o GetTextOf(Tail(html))

\* " ".join(text.split()): no blank at either end, one blank between words.
RECURSIVE NormalizeWhitespace(_)
NormalizeWhitespace(text) ==
    IF text = <<>> THEN <<>>
    ELSE IF Head(text) = " " THEN NormalizeWhitespace(Tail(text))
    ELSE LET rest == NormalizeWhitespace(Tail(text))
         IN  IF Len(text) > 1 /\ text[2] = " " /\ rest # <<>>
             THEN <<Head(text), " ">> \o rest
             ELSE <<Head(text)>> \o rest

\* text[:stop] of Python, stop negative counting from the end.
SliceTo(text, stop) ==
    IF stop >= 0 THEN SubSeq(text, 1, Min(stop, Len(text)))
    ELSE SubSeq(text, 1, Len(text) + stop)

\* s.rsplit(" ", 1)[0]: what stands before the last blank, all of s when
\* it has none.
BeforeLastBlank(s) ==
    IF \E k \in 1..Len(s) : s[k] = " "
    THEN SubSeq(s, 1, (CHOOSE k \in 1..Len(s) :
                           s[k] = " " /\ \A m \in (k + 1)..Len(s) : s[m] # " ") - 1)
    ELSE s

Ellipsis == <<".", ".", ".">>

\* strip_html_tags(html, max_length).
StripHtmlTags(html, max_length) ==
    IF html \in {NoneText, <<>>} THEN NoneText
    ELSE LET text == NormalizeWhitespace(GetTextOf(html))
         IN  IF text = <<>> THEN NoneText
             ELSE IF Len(text) > max_length
                  THEN BeforeLastBlank(SliceTo(text, max_length - 3)) \o Ellipsis
                  ELSE text

\* strip_html_tags runs on the arguments waiting in `call`.
CallStripHtmlTags ==
    /\ call.fn = "html"
    /\ call' = [fn |-> "strip_html_tags", html |-> call.html,
                max_length |-> call.max_length,
                result |-> StripHtmlTags(call.html, call.max_length)]
    /\ UNCHANGED <<pipeline, folders, subs, enqueued>>

InitStrip ==
    /\ PipelineIdle
    /\ call \in {[fn |-> "html", html |-> h, max_length |-> n] :
                    h \in Htmls, n \in 0..MaxLength}
    /\ folders = <<>>
    /\ subs = {}
    /\ enqueued = <<>>

NextStrip == CallStripHtmlTags

SpecStrip == InitStrip /\ [][NextStrip]_vars

(*************************** subscribing ***********************************)
\* Feed urls; a feed is shared by its url, which stands for its id.
Urls == {"https://x.com/feed", "https://y.org/rss"}

\* FeedService.create_subscription(user, url): the subscription is created
\* unless the user has one for the feed already (ValueError).
CreateSubscription(s, url) ==
    IF url \in s THEN [raised |-> TRUE, subs |-> s]
    ELSE [raised |-> FALSE, subs |-> s \cup {url}]

\* One pass of the loop of import_opml with the enqueue moved out of the
\* try block; C26 tells it from ImportOne.
ImportOneAlwaysEnqueue(st, url) ==
    LET c == CreateSubscription(st.subs, url)
    IN  IF c.raised
        THEN [st EXCEPT !.enqueued = Append(@, url), !.failed = @ + 1]
        ELSE [st EXCEPT !.subs = c.subs, !.enqueued = Append(@, url), !.success = @ + 1]

\* One pass of "for opml_feed in opml_result.feeds".
ImportOne(st, url) ==
    LET c == CreateSubscription(st.subs, url)
    IN  IF c.raised
        THEN [st EXCEPT !.failed = @ + 1]
        ELSE [st EXCEPT !.subs = c.subs, !.enqueued = Append(@, url), !.success = @ + 1]

RECURSIVE ImportAll(_, _, _)
ImportAll(st, feeds, i) ==
    IF i > Len(feeds) THEN st ELSE ImportAll(ImportOne(st, feeds[i]), feeds, i + 1)

\* POST /feeds/discover: discover_feed gives the feed's url or raises (then
\* the url of the request is used); subscribe, then enqueue.
DiscoverFeedUrl(url, found) ==
    /\ Len(enqueued) < MaxEnqueued
    /\ \E st \in {ImportOne([subs |-> subs, enqueued |-> enqueued, success |-> 0, failed |-> 0],
                            IF found = NoneStr THEN url ELSE found)} :
          /\ subs' = st.subs
          /\ enqueued' = st.enqueued
          /\ call' = [fn |-> "discover_feed_url", feeds |-> <<url>>,
                      success |-> st.success, failed |-> st.failed]
    /\ UNCHANGED <<pipeline, folders>>

\* POST /feeds/import with an OPML file that lists `feeds` and no folders.
ImportOpml(feeds) ==
    /\ Len(enqueued) + Len(feeds) <= MaxEnqueued
    /\ \E st \in {ImportAll([subs |-> subs, enqueued |-> enqueued, success |-> 0, failed |-> 0],
                            feeds, 1)} :
          /\ subs' = st.subs
          /\ enqueued' = st.enqueued
          /\ call' = [fn |-> "import_opml", feeds |-> feeds,
                      success |-> st.success, failed |-> st.failed]
    /\ UNCHANGED <<pipeline, folders>>

\* DELETE /feeds/{subscription_id}.
DeleteSubscription(url) ==
    /\ url \in subs
    /\ subs' = subs \ {url}
    /\ call' = [fn |-> "delete_subscription", feeds |-> <<url>>, success |-> 0, failed |-> 0]
    /\ UNCHANGED <<pipeline, folders, enqueued>>

InitSub == PipelineIdle /\ Untouched

NextSub ==
    \/ \E url \in Urls, found \in Urls \cup {NoneStr} : DiscoverFeedUrl(url, found)
    \/ \E feeds \in UNION {[1..n -> Urls] : n \in 0..MaxOpml} : ImportOpml(feeds)
    \/ \E url \in Urls : DeleteSubscription(url)

SpecSub == InitSub /\ [][NextSub]_vars

(*************************** folders ***************************************)
\* One user's rows of the folders table, as a function from id to
\* [parent_id, type]; name and position are left out, and the unique
\* constraint on (user_id, parent_id, name, type) shows as a request that
\* the database may reject when the parent has a folder of the type already.
NoParent == 0          \* parent_id IS NULL; a FolderCreate or FolderMove without parent_id
FolderTypes == {"feed", "bookmark"}

NoError == "ok"
NotFound == "Folder not found"
DepthExceeded == "Maximum folder depth (5) exceeded"
TypeMismatch == "Folder type must match parent folder type"
MoveToItself == "Cannot move folder to itself"
MoveToDescendant == "Cannot move folder to its own descendant"
NameTaken == "IntegrityError uq_folder_name"

\* select(Folder.parent_id).where(Folder.id == current_id), scalar_one_or_none():
\* None for a root folder and for an id that has no row.
ParentIdOf(current_id) ==
    IF current_id \in DOMAIN folders THEN folders[current_id].parent_id ELSE NoParent

\* _get_folder_depth: the number of ancestors of the folder.
RECURSIVE GetFolderDepthFrom(_, _)
GetFolderDepthFrom(current_id, depth) ==
    IF current_id = NoParent THEN depth
    ELSE LET parent_id == ParentIdOf(current_id)
         IN  IF parent_id = NoParent THEN depth
             ELSE GetFolderDepthFrom(parent_id, depth + 1)

GetFolderDepth(folder_id) == GetFolderDepthFrom(folder_id, 0)

\* _get_subtree_max_depth: the number of generations below the folder.
RECURSIVE GetSubtreeMaxDepthFrom(_, _, _)
GetSubtreeMaxDepthFrom(to_process, current_depth, max_depth) ==
    LET children == {i \in DOMAIN folders : folders[i].parent_id \in to_process}
    IN  IF children # {}
        THEN GetSubtreeMaxDepthFrom(children, current_depth + 1,
                                    IF max_depth > current_depth + 1 THEN max_depth
                                    ELSE current_depth + 1)
        ELSE max_depth

GetSubtreeMaxDepth(folder_id) == GetSubtreeMaxDepthFrom({folder_id}, 0, 0)

\* _is_descendant with the walk cut after one step: only a child of the
\* ancestor counts; C29 tells it from IsDescendant.
IsDescendantChildOnly(potential_descendant_id, ancestor_id) ==
    ParentIdOf(potential_descendant_id) = ancestor_id

\* _is_descendant: walk up from the folder until the ancestor or a root.
RECURSIVE IsDescendant(_, _)
IsDescendant(potential_descendant_id, ancestor_id) ==
    IF potential_descendant_id = NoParent THEN FALSE
    ELSE LET parent_id == ParentIdOf(potential_descendant_id)
         IN  IF parent_id = ancestor_id THEN TRUE
             ELSE IsDescendant(parent_id, ancestor_id)

\* id = generate_uuid(): an id that no row has.
NewFolderId ==
    CHOOSE i \in 1..(Cardinality(DOMAIN folders) + 1) :
        i \notin DOMAIN folders /\ \A j \in 1..(i - 1) : j \in DOMAIN folders

\* The unique constraint can reject a row of this type under this parent.
MayClash(folder_id, parent_id, type) ==
    /\ parent_id # NoParent
    /\ \E i \in DOMAIN folders \ {folder_id} :
          folders[i].parent_id = parent_id /\ folders[i].type = type

Raised(fn, error) ==
    /\ call' = [fn |-> fn, error |-> error]
    /\ UNCHANGED folders

\* The tests of create_folder, in the order of the code.
CreateFolderError(parent_id, type) ==
    IF parent_id = NoParent THEN NoError
    ELSE IF parent_id \notin DOMAIN folders THEN NotFound
    ELSE IF GetFolderDepth(parent_id) + 1 > MAX_DEPTH THEN DepthExceeded
    ELSE IF folders[parent_id].type # type THEN TypeMismatch
    ELSE NoError

\* FolderService.create_folder(user_id, FolderCreate(parent_id, type)).
CreateFolder(parent_id, type) ==
    /\ LET error == CreateFolderError(parent_id, type)
       IN  IF error # NoError THEN Raised("create_folder", error)
           ELSE \/ /\ folders' = [i \in DOMAIN folders \cup {NewFolderId} |->
                                     IF i = NewFolderId
                                     THEN [parent_id |-> parent_id, type |-> type]
                                     ELSE folders[i]]
                   /\ call' = [fn |-> "create_folder", error |-> NoError]
                \/ /\ MayClash(NoParent, parent_id, type)
                   /\ Raised("create_folder", NameTaken)
    /\ UNCHANGED <<pipeline, subs, enqueued>>

\* The folder and every folder below it: ON DELETE CASCADE of parent_id.
Subtree(folder_id) ==
    {folder_id} \cup {i \in DOMAIN folders : IsDescendant(i, folder_id)}

\* FolderService.delete_folder(folder_id, user_id).
DeleteFolder(folder_id) ==
    /\ IF folder_id \notin DOMAIN folders THEN Raised("delete_folder", NotFound)
       ELSE /\ folders' = [i \in DOMAIN folders \ Subtree(folder_id) |-> folders[i]]
            /\ call' = [fn |-> "delete_folder", error |-> NoError]
    /\ UNCHANGED <<pipeline, subs, enqueued>>

\* The tests of move_folder, in the order of the code.
MoveFolderError(folder_id, parent_id) ==
    IF folder_id \notin DOMAIN folders THEN NotFound
    ELSE IF parent_id = NoParent THEN NoError
    ELSE IF parent_id = folder_id THEN MoveToItself
    ELSE IF IsDescendant(parent_id, folder_id) THEN MoveToDescendant
    ELSE IF GetFolderDepth(parent_id) + 1 + GetSubtreeMaxDepth(folder_id) > MAX_DEPTH
         THEN DepthExceeded
    ELSE IF parent_id \notin DOMAIN folders THEN NotFound
    ELSE IF folders[parent_id].type # folders[folder_id].type THEN TypeMismatch
    ELSE NoError

\* FolderService.move_folder(folder_id, user_id, FolderMove(parent_id)).
MoveFolder(folder_id, parent_id) ==
    /\ LET error == MoveFolderError(folder_id, parent_id)
       IN  IF error # NoError THEN Raised("move_folder", error)
           ELSE \/ /\ folders' = [folders EXCEPT ![folder_id].parent_id = parent_id]
                   /\ call' = [fn |-> "move_folder", error |-> NoError]
                \/ /\ MayClash(folder_id, parent_id, folders[folder_id].type)
                   /\ Raised("move_folder", NameTaken)
    /\ UNCHANGED <<pipeline, subs, enqueued>>

InitFolder == PipelineIdle /\ Untouched

\* The ids a request can name when the user has at most n folders.
FolderIds(n) == 1..n

\* The folders the user can still ask for when at most n are allowed.
Creatable(n, types) == IF Cardinality(DOMAIN folders) < n THEN types ELSE {}

\* Any sequence of create_folder, move_folder and delete_folder calls.
NextFolder ==
    \/ \E parent_id \in FolderIds(MaxFolders) \cup {NoParent},
          type \in Creatable(MaxFolders, FolderTypes) :
          CreateFolder(parent_id, type)
    \/ \E folder_id \in FolderIds(MaxFolders), parent_id \in FolderIds(MaxFolders) \cup {NoParent} :
          MoveFolder(folder_id, parent_id)
    \/ \E folder_id \in FolderIds(MaxFolders) : DeleteFolder(folder_id)

SpecFolder == InitFolder /\ [][NextFolder]_vars

\* Any sequence of create_folder and move_folder calls, with enough folders
\* for a chain longer than MAX_DEPTH; the folders are of one type.
NextNest ==
    \/ \E parent_id \in FolderIds(MaxNested) \cup {NoParent},
          type \in Creatable(MaxNested, {"feed"}) :
          CreateFolder(parent_id, type)
    \/ \E folder_id \in FolderIds(MaxNested), parent_id \in FolderIds(MaxNested) \cup {NoParent} :
          MoveFolder(folder_id, parent_id)

SpecNest == InitFolder /\ [][NextNest]_vars

(*************************** properties ************************************)
\* A worker's step that ends its run by raising Retry (the except branch).
FailedStep(w) ==
    /\ task[w].pc # "idle"
    /\ task'[w].pc = "idle"
    /\ ret'[w].status = "retry"

\* A worker's step that ends its run with an exception of any step.
RaisedStep(w) ==
    /\ task[w].pc # "idle"
    /\ task'[w].pc = "idle"
    /\ ret'[w].status \in {"retry", "crashed"}

NoDoubleInsert ==
    \A w \in Workers : \A i \in 1..Len(task[w].rs.pending) :
        LET g == task[w].rs.pending[i].guid
        IN  /\ Matching(entries, g) = 0
            /\ \A v \in Workers \ {w} : Matching(task[v].rs.pending, g) = 0

\* A run that writes failure state computed from the row it loaded finds
\* the committed error_count and status still as it loaded them.
NoStaleHealthWrite ==
    \A w \in Workers :
        (present /\ FailedStep(w)) => /\ task[w].loaded.error_count = feed.error_count
                         /\ task[w].loaded.status = feed.status

\* C3: two runs of fetch_feed_task for the same feed are serialized: they
\* never both pass the existence check for a guid and both insert it, and
\* neither writes error_count, status and next_fetch_at computed from a row
\* the other has changed since.
C3_Serialized == []NoDoubleInsert /\ [][NoStaleHealthWrite]_vars

C2_Idempotent ==
    [][(/\ last.status = "success"
        /\ last'.status \in {"success", "crashed"}
        /\ last'.parsed = last.parsed
        /\ now' # now)
          => /\ ret'[1].status = "success"
             /\ ret'[1].new_entries = 0
             /\ entries' = entries]_vars

\* The second of two runs with the same non-empty content has ended, and the
\* rows are those the first inserted.
C2_Witness ==
    /\ last.repeat
    /\ Len(last.parsed.entries) > 0
    /\ ret[1].status = "success"
    /\ ret[1].new_entries = 0
    /\ Len(entries) > 0

\* The delays of the spec for failing runs 1 to 10, in minutes.
DelayTable == <<15, 30, 60, 60, 60, 60, 60, 60, 60, 60>>

\* What the last failing run wrote as delay.
WrittenDelay == feed.next_fetch_at - now

\* C4: failing runs 1 to 10 in a row from error_count = 0 write the delays
\* 15, 30, 60, ..., 60 minutes; the delay of every failing run is
\* min(60, 15 * 2^min(error_count - 1, 5)) for the incremented error_count,
\* and it is never above 60.
C4_BackoffSequence ==
    ret[1].status = "retry" =>
        /\ streak \in 1..Len(DelayTable) =>
              /\ feed.error_count = streak
              /\ WrittenDelay = DelayTable[streak]
        /\ \E k \in 0..5 :
              /\ k = (IF feed.error_count - 1 < 5 THEN feed.error_count - 1 ELSE 5)
              /\ WrittenDelay = (IF 15 * (2 ^ k) < 60 THEN 15 * (2 ^ k) ELSE 60)
        /\ WrittenDelay <= 60
        /\ feed.last_fetched_at = now

\* The tenth failing run in a row has written a delay of 60 minutes.
C4_Witness ==
    /\ ret[1].status = "retry"
    /\ streak = 10
    /\ feed.error_count = 10
    /\ WrittenDelay = 60

C6_NotModifiedAdvances ==
    [][(last'.status = "not_modified" /\ now' # now)
          => /\ entries' = entries
             /\ feed'.last_fetched_at > feed.last_fetched_at
             /\ feed'.next_fetch_at > feed.next_fetch_at]_vars

\* C7: a run that ends without error, with content or not-modified, leaves
\* next_fetch_at = the time of the run + 15 minutes.
C7_FixedInterval ==
    ret[1].status \in {"success", "not_modified"} => feed.next_fetch_at = now + 15

\* C8: after a successful run, each display field whose parsed value is
\* empty or None holds what it held before the run, and each other display
\* field holds the parsed value.
C8_MetadataNonClobber ==
    [][(last'.status = "success" /\ now' # now)
          => \A d \in DisplayFields :
                IF last'.parsed[d] = "" \/ last'.parsed[d] = NoneStr
                THEN feed'[d] = feed[d]
                ELSE feed'[d] = last'.parsed[d]]_vars

\* A run with title and icon but no description, site_url or language has
\* ended on a feed that had them all: the former are replaced, the latter kept.
C8_Witness ==
    /\ last.status = "success"
    /\ last.parsed.title = MetaPartial.title
    /\ last.parsed.description = ""
    /\ feed.title = MetaPartial.title
    /\ feed.icon_url = MetaPartial.icon_url
    /\ feed.description = MetaFull.description
    /\ feed.site_url = MetaFull.site_url
    /\ feed.language = MetaFull.language

\* C10: a successful run leaves status ACTIVE, error_count 0 and
\* fetch_error_message None, whatever they were before.
C10_HealthReset ==
    ret[1].status = "success" =>
        /\ feed.status = "ACTIVE"
        /\ feed.error_count = 0
        /\ feed.fetch_error_message = NoneStr

\* A successful run has ended on a feed that was in ERROR with ten failures.
C10_Witness ==
    /\ ret[1].status = "success"
    /\ last.status = "success"
    /\ last.prev_status = "ERROR"
    /\ last.prev_error_count = 10
    /\ feed.status = "ACTIVE"
    /\ feed.error_count = 0
    /\ feed.fetch_error_message = NoneStr

(*************************** the dispatcher and the admin: properties *******)
\* The operations of the admin on a feed.
AdminOperations == {"reset_feed_error", "update_feed", "enable", "disable", "delete_feed"}

\* C11: a feed in ERROR stays in ERROR until an operation of the admin
\* changes it: no run of fetch_feed_task, be it a retry of a failed job or
\* a refresh asked by a user, changes the status of a feed in ERROR.
\* Stated for the feeds that failing runs have moved to ERROR.
C11_ErrorIsTerminal ==
    [][(/\ present
        /\ feed.status = "ERROR"
        /\ feed.error_count >= ERROR_LIMIT
        /\ feed'.status # "ERROR")
          => last'.status \in AdminOperations]_vars

\* C12: fetch_all_feeds never selects a DISABLED feed, and no run of
\* fetch_feed_task moves a feed out of DISABLED.
C12_DisabledIsTerminal ==
    [][/\ (present /\ feed.status = "DISABLED" /\ sweep' # sweep)
             => (sweep'.feeds_queued = 0 /\ queue' = queue)
       /\ (present /\ feed.status = "DISABLED" /\ feed'.status # "DISABLED")
             => last'.status \in AdminOperations]_vars

\* C13: fetch_all_feeds queues one job for the feed exactly when the feed
\* is ACTIVE and its next_fetch_at is null or not after now; a feed in ERROR
\* or DISABLED, or not yet due, gets no job, and a due ACTIVE feed gets one.
C13_SweepSelectsDue ==
    [][sweep' # sweep =>
          IF /\ present
             /\ feed.status = "ACTIVE"
             /\ (feed.next_fetch_at = NoTime \/ ~(feed.next_fetch_at > now))
          THEN /\ sweep'.feeds_queued = 1
               /\ queue' = Append(queue, [kind |-> "sweep", at |-> NoTime])
          ELSE /\ sweep'.feeds_queued = 0
               /\ queue' = queue]_vars

\* fetch_all_feeds has queued a job for a feed whose next_fetch_at is now.
C13_Witness ==
    /\ present
    /\ sweep.at = now
    /\ sweep.feeds_queued = 1
    /\ feed.status = "ACTIVE"
    /\ feed.next_fetch_at = now
    /\ Len(queue) = 1
    /\ queue[1] = [kind |-> "sweep", at |-> NoTime]

\* C14: error_count is the number of failing runs since the last run that
\* did not fail (with content or not-modified): every run that does not
\* fail brings it back to 0.
C14_ConsecutiveCounter ==
    last.status \in {"success", "not_modified", "retry"} => feed.error_count = last.fails

C16_MissingFeedIsFatal ==
    [][/\ (~present /\ now' # now) =>
              /\ \E w \in Workers : /\ task[w].pc = "idle"
                                    /\ ret'[w] = [status |-> "error", new_entries |-> 0,
                                                  message |-> "Feed not found"]
              /\ task' = task /\ feed' = feed /\ entries' = entries
       /\ \A w \in Workers :
              (~present /\ task[w].pc # "idle" /\ task'[w].pc = "idle") =>
                  /\ ret'[w].status = "error"
                  /\ feed' = feed /\ entries' = entries]_vars

\* The greatest element of a non-empty set of numbers.
SetMax(S) == CHOOSE x \in S : \A y \in S : y <= x

\* published_at of the rows a step has added, null ones left out.
InsertedTimes ==
    {entries'[i].published_at : i \in (Len(entries) + 1)..Len(entries')} \ {NoTime}

\* C17: over runs one after another last_entry_at never decreases; a
\* successful run leaves it at the maximum of its value before and the
\* published_at of the rows the run inserted, rows without published_at and
\* parsed entries skipped as existing not counting; a run that inserts
\* nothing leaves it as it was.
C17_WatermarkMonotonic ==
    [][/\ feed'.last_entry_at >= feed.last_entry_at
       /\ (now' # now /\ last'.status = "success") =>
              feed'.last_entry_at = SetMax({feed.last_entry_at} \cup InsertedTimes)
       /\ entries' = entries => feed'.last_entry_at = feed.last_entry_at]_vars

\* A run has inserted an entry published before the watermark, next to a
\* row published later, and the watermark has stayed.
C17_Witness ==
    /\ last.status = "success"
    /\ ret[1].new_entries = 1
    /\ Len(entries) = 2
    /\ entries[1].published_at = 2
    /\ entries[2] = NewEntry(E4)
    /\ feed.last_entry_at = 2

\* C18: no run changes or removes an Entry row; a run whose content has a
\* known guid with other field values (title, url, author, content,
\* summary, published_at) succeeds and leaves the one row of that guid
\* with the values it was created with.
C18_EntriesImmutable ==
    [][/\ Len(entries') >= Len(entries)
       /\ \A i \in 1..Len(entries) : entries'[i] = entries[i]
       /\ \A k \in 1..Len(last'.parsed.entries) :
              (now' # now /\ Matching(entries, last'.parsed.entries[k].guid) >= 1) =>
                  /\ last'.status = "success"
                  /\ Matching(entries', last'.parsed.entries[k].guid) = 1]_vars

\* The row created from the first version of g1 is still as created after
\* a successful run that parsed the edited version.
C18_Witness ==
    /\ last.status = "success"
    /\ \E k \in 1..Len(last.parsed.entries) : last.parsed.entries[k] = E2
    /\ ret[1].new_entries = 0
    /\ Len(entries) >= 1
    /\ entries[1] = NewEntry(E1)

\* C19: a run whose fetch exceeds the client timeout takes the failure
\* path: error_count grows by one, next_fetch_at is set to the backoff
\* delay from now, a retry is signalled, and the run commits no Entry row.
C19_TimeoutIsFailure ==
    [][(now' # now /\ ret'[1].message = TimeoutMessage) =>
          /\ ret'[1].status = "retry"
          /\ feed'.error_count = feed.error_count + 1
          /\ feed'.fetch_error_message = TimeoutMessage
          /\ feed'.next_fetch_at =
                 now' + (IF feed'.error_count = 1 THEN 15
                         ELSE IF feed'.error_count = 2 THEN 30 ELSE 60)
          /\ entries' = entries]_vars

\* The third timeout in a row on a feed that has entries: 60 minutes of
\* backoff, the entries as they were.
C19_Witness ==
    /\ last.status = "retry"
    /\ ret[1].message = TimeoutMessage
    /\ feed.error_count = 3
    /\ feed.next_fetch_at = now + 60
    /\ Len(entries) > 0

\* C20: for a feed that failing runs have moved to ERROR, reset_feed_error
\* leaves status ACTIVE, error_count 0 and no error message, and the run
\* of a user-triggered refresh leaves the feed ACTIVE; stated for the
\* refresh runs whose fetch does not fail.
C20_ManualActionsReactivate ==
    [][/\ (/\ feed.status = "ERROR"
           /\ last'.status = "reset_feed_error"
           /\ last'.prev_status = "ERROR") =>
              /\ feed'.status = "ACTIVE"
              /\ feed'.error_count = 0
              /\ feed'.fetch_error_message = NoneStr
       /\ (/\ feed.status = "ERROR"
           /\ feed.error_count >= ERROR_LIMIT
           /\ last'.tick # last.tick
           /\ last'.job = "refresh"
           /\ last'.status \in {"success", "not_modified"}) =>
              feed'.status = "ACTIVE"]_vars

\* C21: when every fetch of the feed fails and the sweep and the queued
\* jobs are run fairly, the feed eventually has status ERROR; a sweep that
\* finds it in ERROR queues nothing, and only reset_feed_error takes it out
\* of ERROR.
C21_FailingFeedReachesError ==
    /\ <>(feed.status = "ERROR")
    /\ [][(feed.status = "ERROR" /\ sweep' # sweep) =>
              (sweep'.feeds_queued = 0 /\ queue' = queue)]_vars
    /\ [][(feed.status = "ERROR" /\ feed'.status # "ERROR") =>
              last'.status = "reset_feed_error"]_vars

\* A sweep has passed over the feed in ERROR at a minute at which its
\* next_fetch_at had come.
C21_Witness ==
    /\ feed.status = "ERROR"
    /\ feed.error_count >= ERROR_LIMIT
    /\ feed.next_fetch_at <= now
    /\ sweep.at = now
    /\ sweep.feeds_queued = 0
    /\ queue = <<>>

\* C22: the guid of a parsed entry is the id when the source has a
\* non-empty id, else the link when there is one, else the empty string;
\* it is never None.
C22_GuidFallback ==
    call.fn = "ParsedEntry" =>
        /\ call.result.guid # NoneStr
        /\ call.result.guid =
               (IF call.data.id \notin {Absent, ""} THEN call.data.id
                ELSE IF call.data.link # Absent THEN call.data.link
                ELSE "")

\* An entry without id whose link is https://x.com/a has that link as guid.
C22_Witness ==
    /\ call.fn = "ParsedEntry"
    /\ call.data.id = Absent
    /\ call.data.link = "https://x.com/a"
    /\ call.result.guid = "https://x.com/a"

\* The favicon URL for a host.
FaviconFor(host) == FaviconPrefix \o host \o FaviconSuffix

\* The host, with its port, of each site_url that has a scheme and a host.
HostOf(site_url) ==
    CASE site_url = UrlPlain -> HostPlain
      [] site_url = UrlPort -> HostPort
      [] site_url = UrlUser -> HostOfUser
      [] OTHER -> <<>>

\* C23: icon_url is the feed's icon element, else its logo element, else
\* the favicon URL built from the host (and port) of site_url, else None
\* when site_url is absent, empty or without scheme or host.
C23_IconResolution ==
    call.fn = "ParsedFeed" =>
        call.result.icon_url =
            (IF call.data.icon \notin {AbsentText, <<>>} THEN call.data.icon
             ELSE IF call.data.logo \notin {AbsentText, <<>>} THEN call.data.logo
             ELSE IF HostOf(call.data.link) # <<>> THEN FaviconFor(HostOf(call.data.link))
             ELSE NoneText)

\* C24: parse_feed raises exactly when the content is malformed and has no
\* entry; otherwise it returns as many entries as the document has, in the
\* document's order, be the content malformed or not.
C24_TolerantParse ==
    call.fn = "parse_feed" =>
        /\ call.result.raised = (call.data.bozo /\ Len(call.data.entries) = 0)
        /\ ~call.result.raised =>
               /\ Len(call.result.entries) = Len(call.data.entries)
               /\ \A k \in 1..Len(call.data.entries) :
                      /\ call.result.entries[k].url =
                             (IF call.data.entries[k].link = Absent THEN ""
                              ELSE call.data.entries[k].link)
                      /\ call.result.entries[k].title =
                             (IF call.data.entries[k].title = Absent THEN ""
                              ELSE call.data.entries[k].title)

\* A malformed document with the entries B and A, in this order, has been
\* returned with B before A.
C24_Witness ==
    /\ call.fn = "parse_feed"
    /\ call.data.bozo
    /\ ~call.result.raised
    /\ Len(call.result.entries) = 2
    /\ call.result.entries[1].title = "B"
    /\ call.result.entries[2].title = "A"

\* The text strip_html_tags truncates.
NormalizedText == NormalizeWhitespace(GetTextOf(call.html))

\* C25: when the normalized text is longer than max_length, the result has
\* at most max_length characters, ends with "...", and what stands before
\* the marker is the normalized text up to one of its blanks (no part of a
\* word at its end).
C25_TruncationAtWordBoundary ==
    (call.fn = "strip_html_tags" /\ Len(NormalizedText) > call.max_length) =>
        /\ Len(call.result) <= call.max_length
        /\ Len(call.result) >= 3
        /\ SubSeq(call.result, Len(call.result) - 2, Len(call.result)) = Ellipsis
        /\ \E k \in 0..Len(NormalizedText) :
               /\ SubSeq(call.result, 1, Len(call.result) - 3) = SubSeq(NormalizedText, 1, k)
               /\ k = 0 \/ k = Len(NormalizedText) \/ NormalizedText[k + 1] = " "

\* How often url stands in the sequence q.
Count(q, url) == Cardinality({k \in 1..Len(q) : q[k] = url})

\* C26: every call enqueues fetch_feed_task exactly once for each feed it
\* has subscribed the user to and for no other: a subscription that fails
\* (already subscribed) brings no job.
C26_OneFetchPerSubscription ==
    [][/\ Len(enqueued') >= Len(enqueued)
       /\ SubSeq(enqueued', 1, Len(enqueued)) = enqueued
       /\ \A url \in Urls :
              Count(enqueued', url) - Count(enqueued, url) =
                  (IF url \in subs' \ subs THEN 1 ELSE 0)]_vars

\* An import that names one feed twice and a feed the user already has:
\* one subscription, two failures, one job.
C26_Witness ==
    /\ call.fn = "import_opml"
    /\ call.success = 1
    /\ call.failed = 2
    /\ Len(call.feeds) = 3
    /\ Len(enqueued) = 2
    /\ enqueued[1] # enqueued[2]

\* C27: in every reachable state a feed with status ACTIVE has
\* error_count < 10, whatever runs and admin operations have happened.
C27_ActiveBelowLimit ==
    (present /\ feed.status = "ACTIVE") => feed.error_count < ERROR_LIMIT

\* The columns a run writes from the parsed content and the response.
ContentFields == DisplayFields \cup {"etag", "last_modified"}

RECURSIVE AncestorsWithin(_, _)
AncestorsWithin(id, steps) ==
    IF steps = 0 \/ id \notin DOMAIN folders \/ folders[id].parent_id = NoParent THEN {}
    ELSE {folders[id].parent_id} \cup AncestorsWithin(folders[id].parent_id, steps - 1)

Ancestors(id) == AncestorsWithin(id, Cardinality(DOMAIN folders))

Acyclic == \A id \in DOMAIN folders : id \notin Ancestors(id)

\* C29: whatever create_folder, move_folder and delete_folder calls the
\* user has made, no folder is among its own ancestors; and a move_folder
\* call that names the folder itself or a folder below it as the new parent
\* raises and leaves every row as it was.
C29_NoCycle ==
    /\ []Acyclic
    /\ [][call'.fn = "move_folder" =>
             \A parent_id \in DOMAIN folders :
                 \A folder_id \in {parent_id} \cup Ancestors(parent_id) :
                     MoveFolder(folder_id, parent_id) =>
                         /\ folders' = folders
                         /\ call'.error \in {MoveToItself, MoveToDescendant}]_vars

\* A move under a grandchild has been refused and the three rows are there.
C29_Witness ==
    /\ call = [fn |-> "move_folder", error |-> MoveToDescendant]
    /\ \E a, b, c \in DOMAIN folders :
          /\ folders[b].parent_id = a
          /\ folders[c].parent_id = b
          /\ folders[a].parent_id = NoParent

\* The level of a folder, a root folder being at level 1.
Level(id) == Cardinality(Ancestors(id)) + 1

\* C30: no folder lies at a level greater than MAX_DEPTH.
C30_DepthWithinLimit ==
    \A id \in DOMAIN folders : Level(id) <= MAX_DEPTH
====
